---- MODULE Spec2Model ----
(***************************************************************************)
(* Rubik's cube model (RubiksCube) and search engine (RubiksSolver).       *)
(* A cube state is the CubeState.faces array: faces[face][row][col], all   *)
(* indices from 0 as in the source.  The solver's four strategies are      *)
(* modelled step by step: one step of solveBFS is one iteration of its     *)
(* while loop, one step of the recursive strategies is one invocation of   *)
(* the inner search function.                                              *)
(***************************************************************************)
EXTENDS Integers, Sequences, FiniteSets, TLC

VARIABLES
    cube,               \* RubiksCube.state.faces of the caller's cube
    applied,            \* number of applyMove calls since the cube was created solved
    maxNodes,           \* RubiksSolver.maxNodes
    pc,                 \* "idle", "bfs", "dfs", "iddfs", "ida" or "done"; "heap" while a
                        \* strategy runs with its objects followed by reference (SpecHeap)
    queue,              \* solveBFS: the FIFO queue of SearchNodes
    visited,            \* solveBFS: the set of state hashes
    enqueued,           \* solveBFS: the fingerprints of the nodes put on the queue so far,
                        \* in the order they were put on it
    nodesExplored,      \* the local counter nodesExplored of the running strategy
    totalNodesExplored, \* solveIDDFS: totalNodesExplored
    maxDepth,           \* the maxDepth argument of solveDFS / solveIDDFS
    depth,              \* solveIDDFS: the loop variable depth
    threshold,          \* solveKorfIDA: threshold
    path,               \* solveKorfIDA: the shared path array
    stack,              \* the frames of the recursive search that are inside their for loop
    call,               \* the pending invocation of the recursive search
    result,             \* the SolverResult returned by the last solve call
    generated,          \* number of child states generated (clone + applyMove) by the running call
    visits,             \* nodes visited by the running call: dequeues of solveBFS, invocations
                        \* of search that pass its budget guard, invocations of idaSearch
    lastCall,           \* the last call made by the caller: its name, its argument, the cube
                        \* before it and the move list it returned
    error,              \* the message of the Error the last call threw, "none" if it threw none
    currentResult,      \* Index: currentResult (NoResult for undefined)
    stats,              \* Index: stats, per algorithm totalSolves and successRate
    isLoading,          \* Index: isLoading
    isAutoRotating,     \* Index: isAutoRotating
    scrambleCount,      \* Index: scrambleCount
    heap,               \* the CubeState objects in memory, by reference (SpecHeap)
    nodes               \* the search nodes made by the running solve call, each with the
                        \* reference of its RubiksCube's state (SpecHeap)

vars == <<cube, applied, maxNodes, pc, queue, visited, enqueued, nodesExplored,
          totalNodesExplored, maxDepth, depth, threshold, path, stack, call, result,
          generated, visits,
          lastCall, error, currentResult, stats, isLoading, isAutoRotating, scrambleCount,
          heap, nodes>>

-----------------------------------------------------------------------------
(* Bounds of the model. *)

\* applyMove calls on the caller's cube since it was created
MaxMoves == 3

\* largest maxDepth argument passed to solveDFS and solveIDDFS
MaxDepthArg == 3

\* largest node budget of the solvers whose budget is scaled down (SpecBudget)
MaxBudget == 5

\* solves the statistics of the page count before no further solve is started
MaxSolves == 1

\* largest number of moves handleScramble is called with
MaxScramble == 2

\* search nodes a solve call makes while the objects in memory are followed (SpecHeap)
MaxHeapNodes == 3

-----------------------------------------------------------------------------
(* types/cube: FaceColor, Move, SolverAlgorithm *)

WHITE == 0
RED == 1
GREEN == 2
YELLOW == 3
ORANGE == 4
BLUE == 5

U == 0
U_PRIME == 1
R == 2
R_PRIME == 3
F == 4
F_PRIME == 5
D == 6
D_PRIME == 7
L == 8
L_PRIME == 9
B == 10
B_PRIME == 11

FaceColor == {WHITE, RED, GREEN, YELLOW, ORANGE, BLUE}

Move == {U, U_PRIME, R, R_PRIME, F, F_PRIME, D, D_PRIME, L, L_PRIME, B, B_PRIME}

SolverAlgorithm == {"BFS", "DFS", "IDDFS", "KORF_IDA"}

Idx == 0 .. 2

-----------------------------------------------------------------------------
(* RubiksCube *)

createSolvedState == [f \in 0 .. 5 |-> [j \in Idx |-> [k \in Idx |-> f]]]

\* getState / clone: a structural copy of the faces array
clone(s) == [f \in 0 .. 5 |-> [i \in Idx |-> [j \in Idx |-> s[f][i][j]]]]

\* a cell is a triple <<face, row, col>>
ReadCell(s, c) == s[c[1]][c[2]][c[3]]
WriteCell(s, c, v) == [s EXCEPT ![c[1]][c[2]][c[3]] = v]

\* the two for loops of rotateFaceClockwise from the k-th cell on, reading from the face
\* itself: face[i][j] = face[2 - j][i]
RECURSIVE RotateFromFace(_, _, _)
RotateFromFace(s, faceIndex, k) ==
    IF k > 8
    THEN s
    ELSE RotateFromFace(WriteCell(s, <<faceIndex, k \div 3, k % 3>>,
                                  ReadCell(s, <<faceIndex, 2 - (k % 3), k \div 3>>)),
                        faceIndex, k + 1)

\* rotateFaceClockwise with temp dropped: the writes read cells already overwritten
rotateFaceClockwiseNoTemp(s, faceIndex) == RotateFromFace(s, faceIndex, 0)

\* temp is a deep copy of the face; every write reads from temp
rotateFaceClockwise(s, faceIndex) ==
    LET temp == s[faceIndex]
    IN  [s EXCEPT ![faceIndex] = [i \in Idx |-> [j \in Idx |-> temp[2 - j][i]]]]

rotateFaceCounterClockwise(s, faceIndex) ==
    LET temp == s[faceIndex]
    IN  [s EXCEPT ![faceIndex] = [i \in Idx |-> [j \in Idx |-> temp[j][2 - i]]]]

\* A strip is the three cells <<face, row, col>> a for loop visits for i = 0, 1, 2.
RowStrip(f, r) == [i \in Idx |-> <<f, r, i>>]
ColStrip(f, c) == [i \in Idx |-> <<f, i, c>>]
RevColStrip(f, c) == [i \in Idx |-> <<f, 2 - i, c>>]

\* const temp = [ ... ]: the three values of a strip, read now
ReadStrip(s, strip) == [i \in Idx |-> ReadCell(s, strip[i])]

\* for (i = 0; i < 3; i++) dst[i] = src[i]: in place, one write after the other,
\* each read made from the state as the earlier writes left it
CopyStrip(s, dst, src) ==
    LET s0 == WriteCell(s, dst[0], ReadCell(s, src[0]))
        s1 == WriteCell(s0, dst[1], ReadCell(s0, src[1]))
    IN  WriteCell(s1, dst[2], ReadCell(s1, src[2]))

\* for (i = 0; i < 3; i++) dst[i] = temp[i]
StoreStrip(s, dst, temp) ==
    WriteCell(WriteCell(WriteCell(s, dst[0], temp[0]), dst[1], temp[1]), dst[2], temp[2])

\* moveU with the temp buffer dropped: Red's row is read from Green after
\* Green has been overwritten
moveUNoTemp(s) ==
    LET s0 == rotateFaceClockwise(s, WHITE)
        s1 == CopyStrip(s0, RowStrip(GREEN, 0), RowStrip(ORANGE, 0))
        s2 == CopyStrip(s1, RowStrip(ORANGE, 0), RowStrip(BLUE, 0))
        s3 == CopyStrip(s2, RowStrip(BLUE, 0), RowStrip(RED, 0))
    IN  CopyStrip(s3, RowStrip(RED, 0), RowStrip(GREEN, 0))

moveU(s) ==
    LET s0 == rotateFaceClockwise(s, WHITE)
        temp == ReadStrip(s0, RowStrip(GREEN, 0))
        s1 == CopyStrip(s0, RowStrip(GREEN, 0), RowStrip(ORANGE, 0))
        s2 == CopyStrip(s1, RowStrip(ORANGE, 0), RowStrip(BLUE, 0))
        s3 == CopyStrip(s2, RowStrip(BLUE, 0), RowStrip(RED, 0))
    IN  StoreStrip(s3, RowStrip(RED, 0), temp)

\* moveUPrime turning the face the wrong way round
moveUPrimeClockwiseFace(s) ==
    LET s0 == rotateFaceClockwise(s, WHITE)
        temp == ReadStrip(s0, RowStrip(GREEN, 0))
        s1 == CopyStrip(s0, RowStrip(GREEN, 0), RowStrip(RED, 0))
        s2 == CopyStrip(s1, RowStrip(RED, 0), RowStrip(BLUE, 0))
        s3 == CopyStrip(s2, RowStrip(BLUE, 0), RowStrip(ORANGE, 0))
    IN  StoreStrip(s3, RowStrip(ORANGE, 0), temp)

moveUPrime(s) ==
    LET s0 == rotateFaceCounterClockwise(s, WHITE)
        temp == ReadStrip(s0, RowStrip(GREEN, 0))
        s1 == CopyStrip(s0, RowStrip(GREEN, 0), RowStrip(RED, 0))
        s2 == CopyStrip(s1, RowStrip(RED, 0), RowStrip(BLUE, 0))
        s3 == CopyStrip(s2, RowStrip(BLUE, 0), RowStrip(ORANGE, 0))
    IN  StoreStrip(s3, RowStrip(ORANGE, 0), temp)

\* moveR with the temp buffer dropped: Blue's column is read from White after White
\* has been overwritten
moveRNoTemp(s) ==
    LET s0 == rotateFaceClockwise(s, RED)
        s1 == CopyStrip(s0, ColStrip(WHITE, 2), ColStrip(GREEN, 2))
        s2 == CopyStrip(s1, ColStrip(GREEN, 2), ColStrip(YELLOW, 2))
        s3 == CopyStrip(s2, ColStrip(YELLOW, 2), RevColStrip(BLUE, 0))
    IN  CopyStrip(s3, RevColStrip(BLUE, 0), ColStrip(WHITE, 2))

moveR(s) ==
    LET s0 == rotateFaceClockwise(s, RED)
        temp == ReadStrip(s0, ColStrip(WHITE, 2))
        s1 == CopyStrip(s0, ColStrip(WHITE, 2), ColStrip(GREEN, 2))
        s2 == CopyStrip(s1, ColStrip(GREEN, 2), ColStrip(YELLOW, 2))
        s3 == CopyStrip(s2, ColStrip(YELLOW, 2), RevColStrip(BLUE, 0))
    IN  StoreStrip(s3, RevColStrip(BLUE, 0), temp)

moveRPrime(s) ==
    LET s0 == rotateFaceCounterClockwise(s, RED)
        temp == ReadStrip(s0, ColStrip(WHITE, 2))
        s1 == CopyStrip(s0, ColStrip(WHITE, 2), RevColStrip(BLUE, 0))
        s2 == CopyStrip(s1, RevColStrip(BLUE, 0), ColStrip(YELLOW, 2))
        s3 == CopyStrip(s2, ColStrip(YELLOW, 2), ColStrip(GREEN, 2))
    IN  StoreStrip(s3, ColStrip(GREEN, 2), temp)

\* the switch of applyMove; its default branch only warns and leaves the state alone
applyMove(s, move) ==
    CASE move = U -> moveU(s)
      [] move = U_PRIME -> moveUPrime(s)
      [] move = R -> moveR(s)
      [] move = R_PRIME -> moveRPrime(s)
      [] OTHER -> s

RECURSIVE applyMoves(_, _)
applyMoves(s, moves) ==
    IF moves = <<>> THEN s ELSE applyMoves(applyMove(s, Head(moves)), Tail(moves))

isSolved(s) == \A f \in 0 .. 5 : \A i \in Idx : \A j \in Idx : s[f][i][j] = f

\* JSON.stringify of an array of numbers, of an array of such rows, of the faces array
StringifyRow(row) ==
    "[" \o ToString(row[0]) \o "," \o ToString(row[1]) \o "," \o ToString(row[2]) \o "]"

StringifyFace(face) ==
    "[" \o StringifyRow(face[0]) \o "," \o StringifyRow(face[1]) \o ","
        \o StringifyRow(face[2]) \o "]"

\* a hash made of the first face only
getStateHashFirstFace(s) == StringifyFace(s[0])

getStateHash(s) ==
    "[" \o StringifyFace(s[0]) \o "," \o StringifyFace(s[1]) \o "," \o StringifyFace(s[2])
        \o "," \o StringifyFace(s[3]) \o "," \o StringifyFace(s[4]) \o ","
        \o StringifyFace(s[5]) \o "]"

getManhattanDistance(s) ==
    Cardinality({c \in (0 .. 5) \X Idx \X Idx : s[c[1]][c[2]][c[3]] # c[1]})

-----------------------------------------------------------------------------
(* RubiksSolver: values shared by the four strategies *)

\* const possibleMoves = [Move.U, Move.U_PRIME, Move.R, Move.R_PRIME]
possibleMoves == <<U, U_PRIME, R, R_PRIME>>

\* Infinity, as the initial min of idaSearch: larger than every f value
Infinity == 1000000000

\* nodesExplored += 1000 after every IDA* iteration
NodesPerIteration == 1000

\* the initial value of the field maxNodes
InitialMaxNodes == 100000

Front(seq) == SubSeq(seq, 1, Len(seq) - 1)

\* no solve call has returned yet
NoResult == [moves |-> <<>>, nodesExplored |-> 0, algorithmUsed |-> "none"]

SolverResult(moves, n, algorithm) ==
    [moves |-> moves, nodesExplored |-> n, algorithmUsed |-> algorithm]

\* no invocation of a recursive search is pending
NoCall == [cube |-> createSolvedState, moves |-> <<>>, depth |-> 0]

\* the return value of the inner search: null, or the array moves
Null == [found |-> FALSE, moves |-> <<>>]
Found(moves) == [found |-> TRUE, moves |-> moves]

-----------------------------------------------------------------------------
(* solveBFS *)

\* the node the queue starts with
RootNode(c) == [cube |-> clone(c), moves |-> <<>>, depth |-> 0, cost |-> 0]

\* newCube = current.cube.clone(); newCube.applyMove(move); the node pushed for it
ChildNode(current, move) ==
    [cube |-> applyMove(clone(current.cube), move),
     moves |-> Append(current.moves, move),
     depth |-> current.depth + 1,
     cost |-> 0]

\* queue.pop() in the place of queue.shift(): the newest node is taken first
QueuePop(q) == [current |-> q[Len(q)], rest |-> Front(q)]

\* const current = queue.shift()
QueueShift(q) == [current |-> Head(q), rest |-> Tail(q)]

\* the test of the visited set dropped: every child is pushed
NotVisitedUnchecked(vis, stateHash) == TRUE

\* !visited.has(stateHash)
NotVisited(vis, stateHash) == stateHash \notin vis

\* the for loop over possibleMoves, from its k-th move on
RECURSIVE BfsExpand(_, _, _, _)
BfsExpand(current, q, vis, k) ==
    IF k > Len(possibleMoves)
    THEN [queue |-> q, visited |-> vis]
    ELSE LET child == ChildNode(current, possibleMoves[k])
             stateHash == getStateHash(child.cube)
         IN  IF NotVisited(vis, stateHash)
             THEN BfsExpand(current, Append(q, child), vis \cup {stateHash}, k + 1)
             ELSE BfsExpand(current, q, vis, k + 1)

\* the locals of solveBFS before the while loop
BfsStart(c) ==
    [queue |-> <<RootNode(c)>>, visited |-> {getStateHash(c)}, nodesExplored |-> 0,
     generated |-> 0, done |-> FALSE, result |-> NoResult]

\* one evaluation of the while condition and, when it holds, one iteration
BfsIterate(st, budget) ==
    IF Len(st.queue) > 0 /\ st.nodesExplored < budget
    THEN LET d == QueueShift(st.queue)
             current == d.current
             n == st.nodesExplored + 1
         IN  IF isSolved(current.cube)
             THEN [st EXCEPT !.queue = d.rest, !.nodesExplored = n, !.done = TRUE,
                             !.result = SolverResult(current.moves, n, "BFS")]
             ELSE LET e == BfsExpand(current, d.rest, st.visited, 1)
                  IN  [st EXCEPT !.queue = e.queue, !.visited = e.visited,
                                 !.nodesExplored = n,
                                 !.generated = @ + Len(possibleMoves)]
    ELSE [st EXCEPT !.done = TRUE,
                    !.result = SolverResult(<<>>, st.nodesExplored, "BFS")]

RECURSIVE BfsRun(_, _)
BfsRun(st, budget) == IF st.done THEN st ELSE BfsRun(BfsIterate(st, budget), budget)

\* the whole call solveBFS(cube) of a solver whose maxNodes is budget
solveBFS(c, budget) == BfsRun(BfsStart(c), budget).result

-----------------------------------------------------------------------------
(* solveDFS and solveIDDFS: the inner function search *)

\* search(cube.clone(), [], 0)
RootCall(c) == [cube |-> clone(c), moves |-> <<>>, depth |-> 0]

\* newCube = currentCube.clone(); newCube.applyMove(move);
\* search(newCube, [...moves, move], depth + 1)
ChildCall(frame, move) ==
    [cube |-> applyMove(clone(frame.cube), move),
     moves |-> Append(frame.moves, move),
     depth |-> frame.depth + 1]

\* The invocation c enters its for loop: its frame, at the first move.
EnterLoop(stk, c) ==
    [stack |-> Append(stk, [cube |-> c.cube, moves |-> c.moves, depth |-> c.depth, mi |-> 1]),
     call |-> ChildCall(c, possibleMoves[1]),
     finished |-> FALSE]

\* An invocation returned null: its caller's for loop goes on with the next move,
\* and a caller whose loop is over returns null to its own caller.
RECURSIVE ReturnNull(_)
ReturnNull(stk) ==
    IF stk = <<>>
    THEN [stack |-> <<>>, call |-> NoCall, finished |-> TRUE]
    ELSE LET top == stk[Len(stk)]
         IN  IF top.mi = Len(possibleMoves)
             THEN ReturnNull(Front(stk))
             ELSE [stack |-> [stk EXCEPT ![Len(stk)].mi = top.mi + 1],
                   call |-> ChildCall(top, possibleMoves[top.mi + 1]),
                   finished |-> FALSE]

\* solution || []
SolutionOrEmpty(solution) == IF solution.found THEN solution.moves ELSE <<>>

\* if (solution) with an empty array taken for "no solution"
IddfsHasSolutionNonEmpty(solution) == solution.found /\ solution.moves # <<>>

\* if (solution): an array, even an empty one, is truthy; null is not
IddfsHasSolution(solution) == solution.found

-----------------------------------------------------------------------------
(* solveKorfIDA and idaSearch *)

\* Math.floor(c.getManhattanDistance() / 4)
heuristic(c) == getManhattanDistance(c) \div 4

\* f computed without the heuristic
fValueDepthOnly(c, g) == g

\* const f = g + heuristic(cube)
fValue(c, g) == g + heuristic(c)

\* the test that skips a move undoing the last move of the path
IsReversal(move, lastMove) ==
    \/ move = U /\ lastMove = U_PRIME
    \/ move = U_PRIME /\ lastMove = U
    \/ move = R /\ lastMove = R_PRIME
    \/ move = R_PRIME /\ lastMove = R

\* the test for reversals left out: no move is skipped
SkippedNever(move, p) == FALSE

\* if (path.length > 0) { const lastMove = path[path.length - 1]; if (...) continue; }
Skipped(move, p) == Len(p) > 0 /\ IsReversal(move, p[Len(p)])

\* index of the first move from the k-th on that the for loop does not skip; 0 if none
RECURSIVE NextMoveIndex(_, _)
NextMoveIndex(k, p) ==
    IF k > Len(possibleMoves) THEN 0
    ELSE IF Skipped(possibleMoves[k], p) THEN NextMoveIndex(k + 1, p)
    ELSE k

\* idaSearch(cube.clone(), 0, threshold, path, ...)
IdaRootCall(c) == [cube |-> clone(c), g |-> 0]

\* newCube = cube.clone(); newCube.applyMove(move); idaSearch(newCube, g + 1, ...)
IdaChildCall(frame, move) == [cube |-> applyMove(clone(frame.cube), move), g |-> frame.g + 1]

\* path.pop() left out
PathPopMissing(p) == p

\* path.pop()
PathPop(p) == Front(p)

\* min overwritten by every value returned
IdaMinLatest(t, min) == t

\* if (t < min) min = t
IdaMin(t, min) == IF t < min THEN t ELSE min

\* An invocation at the top of the stack returned the number t to its caller:
\* if (t < min) min = t; path.pop(); then the caller's loop goes on, and a caller whose
\* loop is over returns its min to its own caller.
RECURSIVE IdaReturn(_, _, _)
IdaReturn(stk, p, t) ==
    IF stk = <<>>
    THEN [stack |-> <<>>, path |-> p, call |-> IdaRootCall(createSolvedState),
          finished |-> TRUE, t |-> t]
    ELSE LET top == stk[Len(stk)]
             min == IdaMin(t, top.min)
             p1 == PathPop(p)
             k == NextMoveIndex(top.mi + 1, p1)
         IN  IF k = 0
             THEN IdaReturn(Front(stk), p1, min)
             ELSE [stack |-> [stk EXCEPT ![Len(stk)] = [top EXCEPT !.mi = k, !.min = min]],
                   path |-> Append(p1, possibleMoves[k]),
                   call |-> IdaChildCall(top, possibleMoves[k]),
                   finished |-> FALSE, t |-> t]

\* The invocation c enters its for loop (let min = Infinity) at its first move not skipped.
IdaEnterLoop(stk, p, c) ==
    LET k == NextMoveIndex(1, p)
    IN  IF k = 0
        THEN IdaReturn(stk, p, Infinity)
        ELSE [stack |-> Append(stk, [cube |-> c.cube, g |-> c.g, mi |-> k, min |-> Infinity]),
              path |-> Append(p, possibleMoves[k]),
              call |-> IdaChildCall(c, possibleMoves[k]),
              finished |-> FALSE, t |-> 0]

-----------------------------------------------------------------------------
(* The caller: the calls it makes and the state of the page Index *)

\* the record of a call: name, numeric argument, algorithm selector, the cube before the
\* call, the move list returned
Call(op, arg, algorithm, before, returned) ==
    [op |-> op, arg |-> arg, algorithm |-> algorithm, before |-> before,
     returned |-> returned]

\* no call has been made on the cube since it was created
NoCallYet == Call("none", 0, "", createSolvedState, <<>>)

\* useState<AlgorithmStats[]>: totalSolves 0 and successRate 0 for each algorithm.
\* successRate is kept as the exact fraction num / den; the times are not modelled.
InitialStats ==
    [a \in SolverAlgorithm |-> [totalSolves |-> 0, successRate |-> [num |-> 0, den |-> 1]]]

\* the caller's part of the state after construction
InitCaller ==
    /\ lastCall = NoCallYet
    /\ error = "none"
    /\ currentResult = NoResult
    /\ stats = InitialStats
    /\ isLoading = FALSE
    /\ isAutoRotating = TRUE
    /\ scrambleCount = 0

pageVars == <<currentResult, stats, isLoading, isAutoRotating, scrambleCount>>

callerVars == <<lastCall, error, pageVars>>

heapVars == <<heap, nodes>>

\* the arguments applyMove is called with: the 12 moves and two numbers that are none
MoveArgs == Move \cup {-1, 12}

-----------------------------------------------------------------------------
(* The state after construction: a solved cube, a solver that has not run. *)

Init ==
    /\ cube = createSolvedState
    /\ applied = 0
    /\ maxNodes = InitialMaxNodes
    /\ pc = "idle"
    /\ queue = <<>>
    /\ visited = {}
    /\ enqueued = <<>>
    /\ nodesExplored = 0
    /\ totalNodesExplored = 0
    /\ maxDepth = 0
    /\ depth = 0
    /\ threshold = 0
    /\ path = <<>>
    /\ stack = <<>>
    /\ call = NoCall
    /\ result = NoResult
    /\ generated = 0
    /\ visits = 0
    /\ InitCaller
    /\ heap = <<>>
    /\ nodes = <<>>

solverVars == <<pc, queue, visited, enqueued, nodesExplored, totalNodesExplored, maxDepth,
                depth, threshold, path, stack, call, result, generated, visits>>

CanStart == pc \in {"idle", "done"}

-----------------------------------------------------------------------------
(* RubiksCube: the calls that change the caller's cube *)

\* cube.applyMove(move)
ApplyMove(move) ==
    /\ pc = "idle"
    /\ ~isLoading
    /\ applied < MaxMoves
    /\ cube' = applyMove(cube, move)
    /\ applied' = applied + 1
    /\ lastCall' = Call("applyMove", move, "", cube, <<>>)
    /\ error' = "none"
    /\ UNCHANGED <<maxNodes, solverVars, pageVars, heapVars>>

\* the states the for loop of scramble can be in after i more iterations, each
\* applying a move drawn from all the numeric values of Move, when it is in one of ss
RECURSIVE ScrambleLoop(_, _)
ScrambleLoop(ss, i) ==
    IF i <= 0
    THEN ss
    ELSE ScrambleLoop({applyMove(s, randomMove) : s \in ss, randomMove \in Move}, i - 1)

\* the states scramble(moveCount) can leave a cube in state s in
ScrambleOutcomes(s, moveCount) == ScrambleLoop({s}, moveCount)

\* moves.unshift(randomMove) in the place of moves.push(randomMove)
ScrambleUnshift(moves, randomMove) == <<randomMove>> \o moves

\* moves.push(randomMove)
ScramblePush(moves, randomMove) == Append(moves, randomMove)

\* The for loop of scramble from i on: the cubes it can end with and the list moves it
\* has built for each, when it is in one of rs.
RECURSIVE ScrambleFor(_, _, _)
ScrambleFor(rs, i, moveCount) ==
    IF i < moveCount
    THEN ScrambleFor({[cube |-> applyMove(r.cube, randomMove),
                       moves |-> ScramblePush(r.moves, randomMove)] :
                          r \in rs, randomMove \in Move},
                     i + 1, moveCount)
    ELSE rs

\* the outcomes of scramble(moveCount) on a cube in state s: final state and returned list
ScrambleRuns(s, moveCount) == ScrambleFor({[cube |-> s, moves |-> <<>>]}, 0, moveCount)

\* cube.scramble(moveCount)
Scramble(moveCount) ==
    /\ pc = "idle"
    /\ ~isLoading
    /\ applied + moveCount <= MaxMoves
    /\ \E run \in ScrambleRuns(cube, moveCount) :
           /\ cube' = run.cube
           /\ applied' = applied + Len(run.moves)
           /\ lastCall' = Call("scramble", moveCount, "", cube, run.moves)
    /\ error' = "none"
    /\ UNCHANGED <<maxNodes, solverVars, pageVars, heapVars>>

\* handleReset: a new solved cube, the result dropped
Reset ==
    /\ CanStart
    /\ ~isLoading
    /\ lastCall' = NoCallYet
    /\ error' = "none"
    /\ scrambleCount' = 0
    /\ currentResult' = NoResult
    /\ UNCHANGED <<stats, isLoading, isAutoRotating>>
    /\ cube' = createSolvedState
    /\ applied' = 0
    /\ pc' = "idle"
    /\ result' = NoResult
    /\ generated' = 0
    /\ visits' = 0
    /\ queue' = <<>>
    /\ visited' = {}
    /\ enqueued' = <<>>
    /\ nodesExplored' = 0
    /\ totalNodesExplored' = 0
    /\ maxDepth' = 0
    /\ depth' = 0
    /\ threshold' = 0
    /\ path' = <<>>
    /\ stack' = <<>>
    /\ call' = NoCall
    /\ UNCHANGED <<maxNodes, heapVars>>

-----------------------------------------------------------------------------
(* solveBFS, step by step *)

\* the locals of the call as it begins
BeginBFS ==
    /\ LET st == BfsStart(cube)
       IN  /\ queue' = st.queue
           /\ visited' = st.visited
           /\ enqueued' = <<getStateHash(st.queue[1].cube)>>
           /\ nodesExplored' = st.nodesExplored
           /\ generated' = st.generated
    /\ pc' = "bfs"
    /\ result' = NoResult
    /\ visits' = 0
    /\ totalNodesExplored' = 0
    /\ maxDepth' = 0
    /\ depth' = 0
    /\ threshold' = 0
    /\ path' = <<>>
    /\ stack' = <<>>
    /\ call' = NoCall

StartBFS ==
    /\ CanStart
    /\ ~isLoading
    /\ BeginBFS
    /\ lastCall' = Call("solve", 0, "", cube, <<>>)
    /\ error' = "none"
    /\ UNCHANGED <<cube, applied, maxNodes, pageVars, heapVars>>

\* the fingerprints of the nodes an iteration pushed: the nodes of the new queue q that
\* come after the nodes left of the old queue q0 once its current node was taken
Pushed(q0, q) ==
    [i \in 1 .. Len(q) - (Len(q0) - 1) |-> getStateHash(q[Len(q0) - 1 + i].cube)]

BfsStep ==
    /\ pc = "bfs"
    /\ LET st == BfsIterate([queue |-> queue, visited |-> visited,
                             nodesExplored |-> nodesExplored, generated |-> generated,
                             done |-> FALSE, result |-> NoResult], maxNodes)
       IN  /\ nodesExplored' = st.nodesExplored
           /\ visits' = visits + (st.nodesExplored - nodesExplored)
           /\ generated' = st.generated
           /\ result' = st.result
           /\ IF st.done
              THEN pc' = "done" /\ queue' = <<>> /\ visited' = {} /\ enqueued' = <<>>
              ELSE /\ pc' = "bfs" /\ queue' = st.queue /\ visited' = st.visited
                   /\ enqueued' = enqueued \o Pushed(queue, st.queue)
    /\ UNCHANGED <<callerVars, heapVars, cube, applied, maxNodes, totalNodesExplored,
                   maxDepth, depth, threshold, path, stack, call>>

-----------------------------------------------------------------------------
(* solveDFS, step by step *)

\* the locals of the call as it begins
BeginDFS(md) ==
    /\ pc' = "dfs"
    /\ maxDepth' = md
    /\ nodesExplored' = 0
    /\ call' = RootCall(cube)
    /\ stack' = <<>>
    /\ result' = NoResult
    /\ generated' = 0
    /\ visits' = 0
    /\ queue' = <<>>
    /\ visited' = {}
    /\ enqueued' = <<>>
    /\ totalNodesExplored' = 0
    /\ depth' = 0
    /\ threshold' = 0
    /\ path' = <<>>

StartDFS(md) ==
    /\ CanStart
    /\ ~isLoading
    /\ BeginDFS(md)
    /\ lastCall' = Call("solve", 0, "", cube, <<>>)
    /\ error' = "none"
    /\ UNCHANGED <<cube, applied, maxNodes, pageVars, heapVars>>

\* the return of solveDFS
DfsReturn(solution, n) ==
    /\ pc' = "done"
    /\ result' = SolverResult(SolutionOrEmpty(solution), n, "DFS")
    /\ stack' = <<>>
    /\ call' = NoCall

\* the search goes on with the invocation nx.call
DfsGoOn(nx) ==
    /\ pc' = pc
    /\ stack' = nx.stack
    /\ call' = nx.call
    /\ generated' = generated + 1
    /\ result' = result

\* the depth test letting a node at maxDepth expand: if (depth > maxDepth) return null
DfsAtLimitLate(currentDepth) == currentDepth > maxDepth

\* if (depth >= maxDepth) return null
DfsAtLimit(currentDepth) == currentDepth >= maxDepth

\* one invocation of search(currentCube, moves, depth)
DfsStep ==
    /\ pc = "dfs"
    /\ IF nodesExplored >= maxNodes
       THEN /\ nodesExplored' = nodesExplored
            /\ visits' = visits
            /\ LET nx == ReturnNull(stack)
               IN  IF nx.finished
                   THEN DfsReturn(Null, nodesExplored) /\ generated' = generated
                   ELSE DfsGoOn(nx)
       ELSE /\ nodesExplored' = nodesExplored + 1
            /\ visits' = visits + 1
            /\ IF isSolved(call.cube)
               THEN DfsReturn(Found(call.moves), nodesExplored + 1) /\ generated' = generated
               ELSE LET nx == IF DfsAtLimit(call.depth)
                              THEN ReturnNull(stack)
                              ELSE EnterLoop(stack, call)
                    IN  IF nx.finished
                        THEN DfsReturn(Null, nodesExplored + 1) /\ generated' = generated
                        ELSE DfsGoOn(nx)
    /\ UNCHANGED <<callerVars, heapVars, cube, applied, maxNodes, queue, visited, enqueued,
                   totalNodesExplored, maxDepth, depth, threshold, path>>

-----------------------------------------------------------------------------
(* solveIDDFS, step by step *)

\* for (let depth = 1; depth <= maxDepth; depth++): the loop is not entered when maxDepth < 1
\* the locals of the call as it begins
BeginIDDFS(md) ==
    /\ maxDepth' = md
    /\ totalNodesExplored' = 0
    /\ nodesExplored' = 0
    /\ stack' = <<>>
    /\ IF 1 <= md
       THEN pc' = "iddfs" /\ depth' = 1 /\ call' = RootCall(cube) /\ result' = NoResult
       ELSE pc' = "done" /\ depth' = 0 /\ call' = NoCall
            /\ result' = SolverResult(<<>>, 0, "IDDFS")
    /\ generated' = 0
    /\ visits' = 0
    /\ queue' = <<>>
    /\ visited' = {}
    /\ enqueued' = <<>>
    /\ threshold' = 0
    /\ path' = <<>>

StartIDDFS(md) ==
    /\ CanStart
    /\ ~isLoading
    /\ BeginIDDFS(md)
    /\ lastCall' = Call("solve", 0, "", cube, <<>>)
    /\ error' = "none"
    /\ UNCHANGED <<cube, applied, maxNodes, pageVars, heapVars>>

\* search returned solution to the for loop over depth, with the counters at total
IddfsSearchReturned(solution, total) ==
    /\ generated' = generated
    /\ stack' = <<>>
    /\ IF IddfsHasSolution(solution)
       THEN /\ pc' = "done"
            /\ result' = SolverResult(solution.moves, total, "IDDFS")
            /\ call' = NoCall
            /\ depth' = depth
            /\ nodesExplored' = nodesExplored
       ELSE IF depth + 1 <= maxDepth
            THEN /\ pc' = pc
                 /\ result' = result
                 /\ depth' = depth + 1
                 /\ nodesExplored' = 0
                 /\ call' = RootCall(cube)
            ELSE /\ pc' = "done"
                 /\ result' = SolverResult(<<>>, total, "IDDFS")
                 /\ call' = NoCall
                 /\ depth' = depth
                 /\ nodesExplored' = nodesExplored

\* the guard of search with only the counter of the running iteration tested
IddfsBudgetSpentThisIteration(n, total) == n >= maxNodes

\* if (nodesExplored >= this.maxNodes || totalNodesExplored >= this.maxNodes) return null
IddfsBudgetSpent(n, total) == n >= maxNodes \/ total >= maxNodes

\* the depth test made against maxDepth, not against the depth of the running iteration
IddfsAtLimitOfMaxDepth(currentDepth, limit) == currentDepth >= maxDepth

\* if (currentDepth >= depth) return null
IddfsAtLimit(currentDepth, limit) == currentDepth >= limit

\* the search goes on with the invocation nx.call, the per-iteration counter at n
IddfsGoOn(nx, n) ==
    /\ pc' = pc
    /\ stack' = nx.stack
    /\ call' = nx.call
    /\ generated' = generated + 1
    /\ result' = result
    /\ depth' = depth
    /\ nodesExplored' = n

\* one invocation of search(currentCube, moves, currentDepth)
IddfsStep ==
    /\ pc = "iddfs"
    /\ IF IddfsBudgetSpent(nodesExplored, totalNodesExplored)
       THEN /\ totalNodesExplored' = totalNodesExplored
            /\ visits' = visits
            /\ LET nx == ReturnNull(stack)
               IN  IF nx.finished
                   THEN IddfsSearchReturned(Null, totalNodesExplored)
                   ELSE IddfsGoOn(nx, nodesExplored)
       ELSE /\ totalNodesExplored' = totalNodesExplored + 1
            /\ visits' = visits + 1
            /\ IF isSolved(call.cube)
               THEN IddfsSearchReturned(Found(call.moves), totalNodesExplored + 1)
               ELSE LET nx == IF IddfsAtLimit(call.depth, depth)
                              THEN ReturnNull(stack)
                              ELSE EnterLoop(stack, call)
                    IN  IF nx.finished
                        THEN IddfsSearchReturned(Null, totalNodesExplored + 1)
                        ELSE IddfsGoOn(nx, nodesExplored + 1)
    /\ UNCHANGED <<callerVars, heapVars, cube, applied, maxNodes, queue, visited, enqueued,
                   maxDepth, threshold, path>>

-----------------------------------------------------------------------------
(* solveKorfIDA, step by step *)

\* while (true): the loop of solveKorfIDA without its guard
IdaLoopGuardNone(n) == TRUE

\* while (nodesExplored < this.maxNodes * 2)
IdaLoopGuard(n) == n < maxNodes * 2

\* the locals of the call as it begins
BeginIDA ==
    /\ nodesExplored' = 0
    /\ threshold' = heuristic(cube)
    /\ path' = <<>>
    /\ stack' = <<>>
    /\ IF IdaLoopGuard(0)
       THEN pc' = "ida" /\ call' = IdaRootCall(cube) /\ result' = NoResult
       ELSE pc' = "done" /\ call' = NoCall /\ result' = SolverResult(<<>>, 0, "KORF_IDA")
    /\ generated' = 0
    /\ visits' = 0
    /\ queue' = <<>>
    /\ visited' = {}
    /\ enqueued' = <<>>
    /\ totalNodesExplored' = 0
    /\ maxDepth' = 0
    /\ depth' = 0

StartIDA ==
    /\ CanStart
    /\ ~isLoading
    /\ BeginIDA
    /\ lastCall' = Call("solve", 0, "", cube, <<>>)
    /\ error' = "none"
    /\ UNCHANGED <<cube, applied, maxNodes, pageVars, heapVars>>

\* the return of solveKorfIDA
IdaDone(moves, n) ==
    /\ pc' = "done"
    /\ result' = SolverResult(moves, n, "KORF_IDA")
    /\ nodesExplored' = n
    /\ stack' = <<>>
    /\ call' = NoCall
    /\ path' = <<>>
    /\ threshold' = threshold
    /\ generated' = generated

\* the outermost idaSearch returned the number nx.t to the while loop
IdaIterationOver(nx) ==
    IF nx.t = Infinity
    THEN IdaDone(<<>>, nodesExplored)
    ELSE IF IdaLoopGuard(nodesExplored + NodesPerIteration)
         THEN /\ pc' = pc
              /\ result' = result
              /\ threshold' = nx.t
              /\ nodesExplored' = nodesExplored + NodesPerIteration
              /\ stack' = <<>>
              /\ path' = nx.path
              /\ call' = IdaRootCall(cube)
              /\ generated' = generated
         ELSE /\ IdaDone(<<>>, nodesExplored + NodesPerIteration)

\* one invocation of idaSearch(cube, g, threshold, path, heuristic, nodesExplored)
IdaStep ==
    /\ pc = "ida"
    /\ visits' = visits + 1
    /\ LET f == fValue(call.cube, call.g)
       IN  IF f > threshold
           THEN LET nx == IdaReturn(stack, path, f)
                IN  IF nx.finished
                    THEN IdaIterationOver(nx)
                    ELSE /\ pc' = pc
                         /\ result' = result
                         /\ stack' = nx.stack
                         /\ path' = nx.path
                         /\ call' = nx.call
                         /\ generated' = generated + 1
                         /\ UNCHANGED <<threshold, nodesExplored>>
           ELSE IF isSolved(call.cube)
                THEN IdaDone(path, nodesExplored)
                ELSE LET nx == IdaEnterLoop(stack, path, call)
                     IN  IF nx.finished
                         THEN IdaIterationOver(nx)
                         ELSE /\ pc' = pc
                              /\ result' = result
                              /\ stack' = nx.stack
                              /\ path' = nx.path
                              /\ call' = nx.call
                              /\ generated' = generated + 1
                              /\ UNCHANGED <<threshold, nodesExplored>>
    /\ UNCHANGED <<callerVars, heapVars, cube, applied, maxNodes, queue, visited, enqueued,
                   totalNodesExplored, maxDepth, depth>>

-----------------------------------------------------------------------------

Next ==
    \/ \E move \in MoveArgs : ApplyMove(move)
    \/ \E moveCount \in -1 .. MaxMoves : Scramble(moveCount)
    \/ Reset
    \/ StartBFS
    \/ BfsStep
    \/ \E md \in 0 .. MaxDepthArg : StartDFS(md)
    \/ DfsStep
    \/ \E md \in 0 .. MaxDepthArg : StartIDDFS(md)
    \/ IddfsStep
    \/ StartIDA
    \/ IdaStep

Spec == Init /\ [][Next]_vars

\* A solver whose node budget is scaled down, so that the strategies run into it.
InitBudget ==
    /\ cube = createSolvedState
    /\ applied = 0
    /\ maxNodes \in 0 .. MaxBudget
    /\ pc = "idle"
    /\ queue = <<>>
    /\ visited = {}
    /\ enqueued = <<>>
    /\ nodesExplored = 0
    /\ totalNodesExplored = 0
    /\ maxDepth = 0
    /\ depth = 0
    /\ threshold = 0
    /\ path = <<>>
    /\ stack = <<>>
    /\ call = NoCall
    /\ result = NoResult
    /\ generated = 0
    /\ visits = 0
    /\ InitCaller
    /\ heap = <<>>
    /\ nodes = <<>>

SpecBudget == InitBudget /\ [][Next]_vars

-----------------------------------------------------------------------------
(* The page Index: handleScramble, handleReset (the action Reset), handleSolve *)

\* the maxDepth of solveDFS(cube) and of solveIDDFS(cube) called without it
DefaultMaxDepthDFS == 20
DefaultMaxDepthIDDFS == 25

\* the algorithm selectors handleSolve is called with: the four names and one that is none
AlgorithmArgs == SolverAlgorithm \cup {"A_STAR"}

\* updateStats: the entry of the algorithm used gets totalSolves + 1 and the new
\* successRate (successRate * totalSolves + 100 or 0) / newTotalSolves
updateStats(prevStats, res) ==
    [a \in SolverAlgorithm |->
        IF a = res.algorithmUsed
        THEN LET stat == prevStats[a]
                 newTotalSolves == stat.totalSolves + 1
                 gain == IF Len(res.moves) > 0 THEN 100 ELSE 0
             IN  [totalSolves |-> newTotalSolves,
                  successRate |->
                      [num |-> stat.successRate.num * stat.totalSolves
                                   + gain * stat.successRate.den,
                       den |-> stat.successRate.den * newTotalSolves]]
        ELSE prevStats[a]]

\* the solves counted by the statistics
TotalSolves ==
    stats["BFS"].totalSolves + stats["DFS"].totalSolves + stats["IDDFS"].totalSolves
        + stats["KORF_IDA"].totalSolves

\* handleScramble(moves): a new cube, scrambled; the list scramble returns is not used
HandleScramble(moves) ==
    /\ pc = "idle"
    /\ ~isLoading
    /\ cube' \in ScrambleOutcomes(createSolvedState, moves)
    /\ applied' = IF moves > 0 THEN moves ELSE 0
    /\ scrambleCount' = moves
    /\ currentResult' = NoResult
    /\ lastCall' = Call("handleScramble", moves, "", createSolvedState, <<>>)
    /\ error' = "none"
    /\ UNCHANGED <<maxNodes, solverVars, stats, isLoading, isAutoRotating, heapVars>>

\* a switch whose default branch runs BFS
SwitchCaseDefaultBFS(algorithm) == IF algorithm \in SolverAlgorithm THEN algorithm ELSE "BFS"

\* switch (algorithm): the case taken
SwitchCase(algorithm) == IF algorithm \in SolverAlgorithm THEN algorithm ELSE "default"

\* handleSolve(algorithm) up to the await of the solver, or to its end when it ends before
HandleSolve(algorithm) ==
    /\ pc = "idle"
    /\ ~isLoading
    /\ lastCall' = Call("handleSolve", 0, algorithm, cube, <<>>)
    /\ IF isSolved(cube)
       THEN /\ error' = "none"
            /\ UNCHANGED <<solverVars, pageVars>>
       ELSE IF SwitchCase(algorithm) = "default"
            THEN \* throw new Error(...), caught in the same call; then the finally block
                 /\ error' = "Unknown algorithm: " \o algorithm
                 /\ isLoading' = FALSE
                 /\ isAutoRotating' = TRUE
                 /\ UNCHANGED <<solverVars, currentResult, stats, scrambleCount>>
            ELSE /\ TotalSolves < MaxSolves
                 /\ error' = "none"
                 /\ isLoading' = TRUE
                 /\ isAutoRotating' = FALSE
                 /\ UNCHANGED <<currentResult, stats, scrambleCount>>
                 /\ CASE SwitchCase(algorithm) = "BFS" -> BeginBFS
                      [] SwitchCase(algorithm) = "DFS" -> BeginDFS(DefaultMaxDepthDFS)
                      [] SwitchCase(algorithm) = "IDDFS" -> BeginIDDFS(DefaultMaxDepthIDDFS)
                      [] SwitchCase(algorithm) = "KORF_IDA" -> BeginIDA
    /\ UNCHANGED <<cube, applied, maxNodes, heapVars>>

\* handleSolve from the return of the solver on: the solution applied to a clone that
\* becomes the cube, the result kept, the statistics updated, the finally block. The
\* locals of the call are gone.
HandleSolveReturn ==
    /\ pc = "done"
    /\ isLoading
    /\ cube' = IF Len(result.moves) > 0 THEN applyMoves(clone(cube), result.moves) ELSE cube
    /\ applied' = applied + Len(result.moves)
    /\ currentResult' = result
    /\ stats' = updateStats(stats, result)
    /\ isLoading' = FALSE
    /\ isAutoRotating' = TRUE
    /\ pc' = "idle"
    /\ result' = NoResult
    /\ generated' = 0
    /\ visits' = 0
    /\ nodesExplored' = 0
    /\ totalNodesExplored' = 0
    /\ maxDepth' = 0
    /\ depth' = 0
    /\ threshold' = 0
    /\ UNCHANGED <<maxNodes, lastCall, error, scrambleCount, queue, visited, enqueued, path,
                   stack, call, heapVars>>

\* the page with a solver whose node budget is scaled down to MaxBudget
InitIndex == InitBudget /\ maxNodes = MaxBudget

NextIndex ==
    \/ \E moves \in -1 .. MaxScramble : HandleScramble(moves)
    \/ Reset
    \/ \E algorithm \in AlgorithmArgs : HandleSolve(algorithm)
    \/ BfsStep
    \/ DfsStep
    \/ IddfsStep
    \/ IdaStep
    \/ HandleSolveReturn

SpecIndex == InitIndex /\ [][NextIndex]_vars

-----------------------------------------------------------------------------
(* Objects in memory.  A RubiksCube holds a reference to its CubeState; heap maps    *)
(* the references in use to the faces arrays they hold.  A write through a reference *)
(* is seen through every copy of that reference.                                     *)

\* the caller's cube: the first object made
InputRef == 1

\* getState handing out this.state itself: no copy is made
getStateShared(h, ref) == [heap |-> h, ref |-> ref]

\* getState: JSON.parse(JSON.stringify(this.state)), a new object holding a deep copy
getStateOf(h, ref) == [heap |-> Append(h, clone(h[ref])), ref |-> Len(h) + 1]

\* clone: new RubiksCube(this.getState()); the constructor keeps the reference it is given
cloneOf(h, ref) == getStateOf(h, ref)

\* applyMove on the object behind ref: the writes go to this.state.faces in place
applyMoveOf(h, ref, move) == [h EXCEPT ![ref] = applyMove(@, move)]

\* the cube the caller holds when it calls a strategy, the only object so far
InitHeap ==
    /\ cube \in ScrambleOutcomes(createSolvedState, MaxScramble)
    /\ applied = MaxScramble
    /\ maxNodes = InitialMaxNodes
    /\ pc = "idle"
    /\ queue = <<>>
    /\ visited = {}
    /\ enqueued = <<>>
    /\ nodesExplored = 0
    /\ totalNodesExplored = 0
    /\ maxDepth = 0
    /\ depth = 0
    /\ threshold = 0
    /\ path = <<>>
    /\ stack = <<>>
    /\ call = NoCall
    /\ result = NoResult
    /\ generated = 0
    /\ visits = 0
    /\ InitCaller
    /\ heap = <<cube>>
    /\ nodes = <<>>

\* the root of a search: cube.clone() of the caller's cube, made by solveBFS for its
\* queue, by solveDFS, and by solveIDDFS and solveKorfIDA once per iteration
HeapRoot ==
    /\ pc \in {"idle", "heap"}
    /\ Len(nodes) < MaxHeapNodes
    /\ LET c == cloneOf(heap, InputRef)
       IN  /\ heap' = c.heap
           /\ nodes' = Append(nodes, [ref |-> c.ref, moves |-> <<>>, parent |-> 0])
    /\ pc' = "heap"
    /\ lastCall' = Call("solve", 0, "", cube, <<>>)
    /\ UNCHANGED <<cube, applied, maxNodes, error, pageVars, queue, visited, enqueued,
                   nodesExplored, totalNodesExplored, maxDepth, depth, threshold, path, stack,
                   call, result, generated, visits>>

\* one child of the node n, as all four strategies make it:
\* newCube = <the node's cube>.clone(); newCube.applyMove(move)
HeapExpand(n, move) ==
    /\ pc = "heap"
    /\ Len(nodes) < MaxHeapNodes
    /\ LET c == cloneOf(heap, nodes[n].ref)
       IN  /\ heap' = applyMoveOf(c.heap, c.ref, move)
           /\ nodes' = Append(nodes, [ref |-> c.ref,
                                      moves |-> Append(nodes[n].moves, move),
                                      parent |-> n])
    /\ UNCHANGED <<cube, applied, maxNodes, callerVars, solverVars>>

\* the strategy returns to its caller
HeapReturn ==
    /\ pc = "heap"
    /\ pc' = "done"
    /\ UNCHANGED <<cube, applied, maxNodes, callerVars, heapVars, queue, visited, enqueued,
                   nodesExplored, totalNodesExplored, maxDepth, depth, threshold, path, stack,
                   call, result, generated, visits>>

NextHeap ==
    \/ HeapRoot
    \/ \E n \in 1 .. Len(nodes) : \E k \in 1 .. Len(possibleMoves) :
           HeapExpand(n, possibleMoves[k])
    \/ HeapReturn

SpecHeap == InitHeap /\ [][NextHeap]_vars

-----------------------------------------------------------------------------
(* The strategies run to their return.  Each solve method is one synchronous run of  *)
(* its loop or recursion (no await inside), so a step that can be taken is taken.    *)

\* a solver with the budget of the source or with a budget scaled down
InitTermination ==
    /\ cube = createSolvedState
    /\ applied = 0
    /\ maxNodes \in (0 .. MaxBudget) \cup {InitialMaxNodes}
    /\ pc = "idle"
    /\ queue = <<>>
    /\ visited = {}
    /\ enqueued = <<>>
    /\ nodesExplored = 0
    /\ totalNodesExplored = 0
    /\ maxDepth = 0
    /\ depth = 0
    /\ threshold = 0
    /\ path = <<>>
    /\ stack = <<>>
    /\ call = NoCall
    /\ result = NoResult
    /\ generated = 0
    /\ visits = 0
    /\ InitCaller
    /\ heap = <<>>
    /\ nodes = <<>>

NextTermination ==
    \/ \E k \in 1 .. Len(possibleMoves) : ApplyMove(possibleMoves[k])
    \/ StartBFS
    \/ BfsStep
    \/ \E md \in 0 .. MaxDepthArg : StartDFS(md)
    \/ DfsStep
    \/ \E md \in 0 .. MaxDepthArg : StartIDDFS(md)
    \/ IddfsStep
    \/ StartIDA
    \/ IdaStep

\* Weak fairness of the step of each strategy, WF_vars(A) written out as
\* []<>~ENABLED <<A>>_vars \/ []<><<A>>_vars with the enabling condition in the place of
\* ENABLED <<A>>_vars: the step of a strategy can be taken exactly when pc names the
\* strategy, and it always changes a counter, the stack or pc.
Fairness ==
    /\ []<>(pc # "bfs") \/ []<><<BfsStep>>_vars
    /\ []<>(pc # "dfs") \/ []<><<DfsStep>>_vars
    /\ []<>(pc # "iddfs") \/ []<><<IddfsStep>>_vars
    /\ []<>(pc # "ida") \/ []<><<IdaStep>>_vars

SpecTermination == InitTermination /\ [][NextTermination]_vars /\ Fairness

-----------------------------------------------------------------------------
(* Notions the properties below are stated with *)

\* the inverse of a move: clockwise <-> counter-clockwise of the same face
Inverse(move) == IF move % 2 = 0 THEN move + 1 ELSE move - 1

\* the six clockwise quarter-turns
ClockwiseMoves == {U, R, F, D, L, B}

\* the two states have equal colours at all 54 facelet positions
SameFacelets(a, b) ==
    \A f \in 0 .. 5 : \A i \in Idx : \A j \in Idx : a[f][i][j] = b[f][i][j]

\* One of the states ss, or a state that at most k legal moves make of one of them,
\* is solved.
RECURSIVE SolvedWithin(_, _)
SolvedWithin(ss, k) ==
    \/ \E s \in ss : isSolved(s)
    \/ /\ k > 0
       /\ SolvedWithin({applyMove(s, move) : s \in ss, move \in Move}, k - 1)

\* Some sequence of at most k legal moves takes s to the solved state.
SolvableWithin(s, k) == SolvedWithin({s}, k)

\* the states within two applyMove calls of s
Near(s) == ScrambleOutcomes(s, 2)

Done(algorithm) == pc = "done" /\ result.algorithmUsed = algorithm

-----------------------------------------------------------------------------
(* The properties *)

\* C1: in every state reached from the solved state by applyMove, applying any of
\* the 12 moves and then its inverse gives back the same 54 facelets.
C1_MoveThenInverseRestores ==
    pc = "idle" =>
        \A move \in Move :
            SameFacelets(applyMove(applyMove(cube, move), Inverse(move)), cube)

\* C1 witness: a scrambled cube that U' changes and the following U restores
C1_Witness ==
    /\ pc = "idle"
    /\ applied = MaxMoves
    /\ ~isSolved(cube)
    /\ ~SameFacelets(applyMove(cube, U_PRIME), cube)
    /\ SameFacelets(applyMove(applyMove(cube, U_PRIME), U), cube)

\* C2: in every reachable state, four clockwise quarter-turns of one face in a row
\* give back the same 54 facelets.
C2_FourTurnsRestore ==
    pc = "idle" =>
        \A move \in ClockwiseMoves :
            SameFacelets(applyMoves(cube, <<move, move, move, move>>), cube)

\* C2 witness: a scrambled cube that one, two and three turns of U change and the
\* fourth restores
C2_Witness ==
    /\ pc = "idle"
    /\ applied = MaxMoves
    /\ ~isSolved(cube)
    /\ ~SameFacelets(applyMoves(cube, <<U>>), cube)
    /\ ~SameFacelets(applyMoves(cube, <<U, U>>), cube)
    /\ ~SameFacelets(applyMoves(cube, <<U, U, U>>), cube)
    /\ SameFacelets(applyMoves(cube, <<U, U, U, U>>), cube)

\* C3 as claimed: each of the 12 moves turns the solved cube into another state.
C3_EveryMoveTurnsTheSolvedCube ==
    pc = "idle" /\ isSolved(cube) =>
        \A move \in Move : ~SameFacelets(applyMove(cube, move), cube)

\* C4: a non-empty move list returned by any of the four strategies, applied in
\* order to the start state, gives the solved state.
C4_ReturnedMovesSolve ==
    pc = "done" /\ result.moves # <<>> => isSolved(applyMoves(cube, result.moves))

\* C4 witness: IDA* returned a list of three moves or more
C4_Witness ==
    /\ Done("KORF_IDA")
    /\ Len(result.moves) >= 3
    /\ ~isSolved(cube)

\* C5: from a state that N >= 1 scramble moves made of the solved state, solveBFS
\* ends within its node budget with a list of at most N moves that solves the state.
C5_BfsWithinScrambleLength ==
    Done("BFS") /\ applied >= 1 =>
        /\ Len(result.moves) <= applied
        /\ isSolved(applyMoves(cube, result.moves))
        /\ result.nodesExplored <= maxNodes

\* C5 witness: a scramble of MaxMoves moves that BFS answers with as many moves
C5_Witness ==
    /\ Done("BFS")
    /\ applied = MaxMoves
    /\ Len(result.moves) = MaxMoves

\* C6: a non-empty list returned by solveBFS is a shortest solution: no shorter
\* sequence of legal moves solves the start state, and the list does.
C6_BfsShortest ==
    Done("BFS") /\ result.moves # <<>> =>
        /\ ~SolvableWithin(cube, Len(result.moves) - 1)
        /\ isSolved(applyMoves(cube, result.moves))

\* C6 witness: BFS returned two moves or more for a state that as many moves solve
C6_Witness ==
    /\ Done("BFS")
    /\ Len(result.moves) >= 2
    /\ SolvableWithin(cube, Len(result.moves))

\* C7: where IDA* and BFS both return a non-empty list for a start state, the
\* list of IDA* is no longer than the list of BFS.
C7_IdaNotLongerThanBfs ==
    Done("KORF_IDA") /\ result.moves # <<>> =>
        LET bfs == solveBFS(cube, maxNodes)
        IN  bfs.moves # <<>> => Len(result.moves) <= Len(bfs.moves)

\* C7 witness: both strategies return two moves or more for the start state
C7_Witness ==
    /\ Done("KORF_IDA")
    /\ Len(result.moves) >= 2
    /\ Len(solveBFS(cube, maxNodes).moves) >= 2

\* C8 as claimed: the heuristic is 0 on the solved state, never negative and never
\* more than the least number of moves that solve the state.
C8_HeuristicAdmissible ==
    pc = "idle" =>
        /\ heuristic(cube) >= 0
        /\ (isSolved(cube) => heuristic(cube) = 0)
        /\ (heuristic(cube) >= 1 => ~SolvableWithin(cube, heuristic(cube) - 1))

\* C9: two states have the same hash exactly when they have equal colours at all
\* 54 facelet positions.
C9_HashIffSameFacelets ==
    pc = "idle" =>
        \A b \in Near(cube) :
            (getStateHash(cube) = getStateHash(b)) <=> SameFacelets(cube, b)

\* C9 witness: two different states with the same first face and different hashes
C9_Witness ==
    /\ pc = "idle"
    /\ applied = MaxMoves
    /\ ~isSolved(cube)
    /\ \E b \in Near(cube) :
          /\ ~SameFacelets(cube, b)
          /\ b[WHITE] = cube[WHITE]
          /\ getStateHash(cube) # getStateHash(b)

\* C10: on a solved start state every strategy returns an empty list after looking
\* at the start node only: no child state generated, nodesExplored at most 1.
C10_SolvedStartNeedsNoSearch ==
    pc = "done" /\ isSolved(cube) =>
        /\ result.moves = <<>>
        /\ generated = 0
        /\ visits <= 1
        /\ result.nodesExplored <= 1

\* C10 witness: solveIDDFS with maxDepth 2 or more returned on a solved cube
C10_Witness ==
    /\ Done("IDDFS")
    /\ isSolved(cube)
    /\ maxDepth >= 2
    /\ visits = 1

\* C11 as claimed: in a solve call of any of the four strategies the nodes visited
\* (dequeued, or entered by the recursive search) never number more than maxNodes.
C11_VisitsWithinBudget == visits <= maxNodes

\* C12 as claimed: the nodesExplored of every returned result, a not-found result
\* included, is the number of nodes the call visited.
C12_ReportedIsVisited == pc = "done" => result.nodesExplored = visits

\* C17: a non-empty list returned by solveIDDFS has between 1 and maxDepth moves,
\* solves the start state, and no sequence of fewer moves does: its length is the
\* smallest depth limit at which a solution exists.
C17_IddfsSmallestDepth ==
    Done("IDDFS") /\ result.moves # <<>> =>
        /\ Len(result.moves) \in 1 .. maxDepth
        /\ ~SolvableWithin(cube, Len(result.moves) - 1)
        /\ isSolved(applyMoves(cube, result.moves))

\* C17 witness: solveIDDFS with maxDepth 3 or more returned two moves, found in its
\* second iteration
C17_Witness ==
    /\ Done("IDDFS")
    /\ Len(result.moves) = 2
    /\ depth = 2
    /\ maxDepth >= 3

NoReversal(p) == \A i \in 1 .. Len(p) - 1 : p[i + 1] # Inverse(p[i])

\* The f values of the nodes an iteration with threshold th prunes in the subtree
\* of the node c reached at cost g by the moves p: the tree of all moves except the
\* inverse of the move before, cut where f = g + estimate exceeds th.
RECURSIVE PrunedF(_, _, _, _)
PrunedF(c, g, p, th) ==
    LET f == g + getManhattanDistance(c) \div 4
    IN  IF f > th THEN {f}
        ELSE IF isSolved(c) THEN {}
        ELSE UNION {PrunedF(applyMove(c, possibleMoves[k]), g + 1,
                            Append(p, possibleMoves[k]), th) :
                        k \in {j \in 1 .. Len(possibleMoves) :
                                   p = <<>> \/ possibleMoves[j] # Inverse(p[Len(p)])}}

\* the least number of a non-empty set of numbers
Least(S) == CHOOSE x \in S : \A y \in S : x <= y

\* C19: solveKorfIDA starts with the threshold estimate(start); within an iteration
\* the threshold stays; after an iteration without a solution the next threshold is
\* the least f = g + estimate(state) of the nodes pruned in it, which is larger than
\* the threshold before.
C19_ThresholdIsLeastPrunedF ==
    [][/\ (pc # "ida" /\ pc' = "ida" =>
              threshold' = getManhattanDistance(cube') \div 4)
       /\ (pc = "ida" /\ pc' = "ida" /\ nodesExplored' = nodesExplored =>
              threshold' = threshold)
       /\ (pc = "ida" /\ pc' = "ida" /\ nodesExplored' # nodesExplored =>
              /\ PrunedF(cube, 0, <<>>, threshold) # {}
              /\ threshold' = Least(PrunedF(cube, 0, <<>>, threshold))
              /\ threshold' > threshold)]_vars

\* C19 witness: the third iteration of a search, its threshold raised twice
C19_Witness ==
    /\ pc = "ida"
    /\ nodesExplored = 2 * NodesPerIteration
    /\ threshold >= getManhattanDistance(cube) \div 4 + 2
    /\ Len(path) >= 1

\* C20: the path of a running IDA* search, and the list solveKorfIDA returns, never
\* hold a move followed at once by its inverse.
C20_NoImmediateReversal ==
    /\ (pc = "ida" => NoReversal(path))
    /\ (Done("KORF_IDA") => NoReversal(result.moves))

\* C20 witness: the loop of an invocation two moves deep or more went past the
\* inverse of the move before and tries a later move
C20_Witness ==
    /\ pc = "ida"
    /\ Len(path) >= 2
    /\ Len(stack) = Len(path)
    /\ \E j \in 1 .. stack[Len(stack)].mi - 1 :
           possibleMoves[j] = Inverse(path[Len(path) - 1])

\* C13: scramble(count) with count >= 1 returns a list of exactly count moves, each one
\* of the 12 moves, and applyMoves of that list on the state before the call gives the
\* state after it.
C13_ScrambleReturnsItsMoves ==
    lastCall.op = "scramble" /\ lastCall.arg >= 1 =>
        /\ Len(lastCall.returned) = lastCall.arg
        /\ \A i \in 1 .. Len(lastCall.returned) : lastCall.returned[i] \in Move
        /\ SameFacelets(applyMoves(lastCall.before, lastCall.returned), cube)

\* C13 witness: a scramble of two moves or more returned a list that begins U, R and
\* ends in another state than the same moves in the order R, U would
C13_Witness ==
    /\ lastCall.op = "scramble"
    /\ lastCall.arg >= 2
    /\ lastCall.returned[1] = U
    /\ lastCall.returned[2] = R
    /\ ~SameFacelets(cube, lastCall.before)
    /\ ~SameFacelets(cube, applyMoves(lastCall.before,
                                      <<R, U>> \o SubSeq(lastCall.returned, 3,
                                                         Len(lastCall.returned))))

\* C14 as claimed: scramble(count) with count <= 0 throws an error and leaves the cube
\* as it was.
C14_ScrambleRejectsNonPositiveCount ==
    lastCall.op = "scramble" /\ lastCall.arg <= 0 =>
        /\ error # "none"
        /\ SameFacelets(cube, lastCall.before)

\* C15 as claimed: applyMove with a number that is none of the 12 moves throws an error
\* and leaves the cube as it was.
C15_ApplyMoveRejectsUnknownMove ==
    lastCall.op = "applyMove" /\ lastCall.arg \notin Move =>
        /\ error # "none"
        /\ SameFacelets(cube, lastCall.before)

\* a step that is a call of handleSolve with a selector that is none of the four
UnknownSolveStep ==
    lastCall'.op = "handleSolve" /\ lastCall'.algorithm \notin SolverAlgorithm

-----------------------------------------------------------------------------
(* Depth-first pre-order over the paths of possibleMoves *)

\* the place of a move in possibleMoves
MoveIndex(move) == CHOOSE k \in 1 .. Len(possibleMoves) : possibleMoves[k] = move

\* all the paths of at most k moves drawn from possibleMoves
PathsWithin(k) ==
    UNION {[1 .. n -> {possibleMoves[i] : i \in 1 .. Len(possibleMoves)}] : n \in 0 .. k}

\* p is q or is met before q by a depth-first pre-order walk that tries the moves in the
\* order of possibleMoves: p is a prefix of q, or at the first place they differ p takes
\* the earlier move
PreorderBefore(p, q) ==
    \/ /\ Len(p) <= Len(q)
       /\ \A i \in 1 .. Len(p) : p[i] = q[i]
    \/ \E i \in 1 .. Len(p) :
           /\ i <= Len(q)
           /\ \A j \in 1 .. i - 1 : p[j] = q[j]
           /\ MoveIndex(p[i]) < MoveIndex(q[i])

\* the paths of at most k moves that solve s
SolvingPaths(s, k) == {p \in PathsWithin(k) : isSolved(applyMoves(s, p))}

\* C21: solveDFS(cube, maxDepth) never visits a node deeper than maxDepth, and a
\* non-empty list it returns has at most maxDepth moves and is the first solving path
\* in depth-first pre-order under the move order of possibleMoves.
C21_DfsFirstPathInPreorder ==
    /\ pc = "dfs" =>
           /\ call.depth <= maxDepth
           /\ \A i \in 1 .. Len(stack) : stack[i].depth < maxDepth
    /\ (Done("DFS") /\ result.moves # <<>>) =>
           /\ Len(result.moves) <= maxDepth
           /\ result.moves \in SolvingPaths(cube, maxDepth)
           /\ \A q \in SolvingPaths(cube, maxDepth) : PreorderBefore(result.moves, q)

\* C21 witness: solveDFS returned a path of MaxDepthArg moves, the first in pre-order,
\* for a cube that one move solves: the path returned is not a shortest one
C21_Witness ==
    /\ Done("DFS")
    /\ maxDepth = MaxDepthArg
    /\ Len(result.moves) = MaxDepthArg
    /\ SolvableWithin(cube, 1)
    /\ visits > MaxDepthArg

\* the fingerprints of the nodes put on the queue so far, as a set
EnqueuedHashes == {enqueued[i] : i \in 1 .. Len(enqueued)}

\* C22: while solveBFS runs, the visited set holds the fingerprint of the start state
\* and of every node ever put on the queue, and no two nodes ever put on the queue
\* have the same fingerprint. (Every node put on the queue has been taken off it or
\* is still on it.)
C22_BfsVisitedCoversQueue ==
    pc = "bfs" =>
        /\ getStateHash(cube) \in visited
        /\ EnqueuedHashes \subseteq visited
        /\ Cardinality(EnqueuedHashes) = Len(enqueued)
        /\ Len(enqueued) = visits + Len(queue)

\* C22 witness: solveBFS has taken nodes off the queue and has met children that were
\* visited before: fewer nodes were put on the queue than children were generated
C22_Witness ==
    /\ pc = "bfs"
    /\ nodesExplored >= 2
    /\ Len(enqueued) > Len(queue) + 1
    /\ Len(enqueued) < generated + 1

\* C23: every search node owns its state alone. No two nodes, and no node and the
\* caller's cube, hold the same object; a node's state is what its own moves make of
\* the caller's cube, whatever was done to its parent, its children and its siblings
\* since; and the caller's cube is, during and after the call, as it was before it.
C23_NodesOwnTheirState ==
    pc \in {"heap", "done"} =>
        /\ heap[InputRef] = lastCall.before
        /\ heap[InputRef] = cube
        /\ \A i \in 1 .. Len(nodes) :
               /\ nodes[i].ref # InputRef
               /\ \A j \in 1 .. Len(nodes) : i # j => nodes[i].ref # nodes[j].ref
               /\ heap[nodes[i].ref] = applyMoves(lastCall.before, nodes[i].moves)

\* C23 witness: a call on a cube that is not solved has returned after it made a node
\* with two children, each turned by a different move after the parent was made
C23_Witness ==
    /\ pc = "done"
    /\ ~isSolved(cube)
    /\ \E i, j \in 1 .. Len(nodes) :
           /\ i # j
           /\ nodes[i].parent # 0
           /\ nodes[i].parent = nodes[j].parent
           /\ nodes[i].moves # nodes[j].moves
           /\ heap[nodes[i].ref] # heap[nodes[j].ref]
           /\ heap[nodes[i].ref] # heap[nodes[nodes[i].parent].ref]

-----------------------------------------------------------------------------
(* The moves as permutations of the facelets *)

\* the moves applyMove has a case for
ImplementedMoves == {U, U_PRIME, R, R_PRIME}

\* the face a move turns
TurnedFace(move) == IF move \in {U, U_PRIME} THEN WHITE ELSE RED

\* the assignments of a move to the strips around the turned face, each a pair
\* <<destination, source>>, the strip kept in temp named as the source of the last
StripAssignments(move) ==
    CASE move = U ->
             <<<<RowStrip(GREEN, 0), RowStrip(ORANGE, 0)>>,
               <<RowStrip(ORANGE, 0), RowStrip(BLUE, 0)>>,
               <<RowStrip(BLUE, 0), RowStrip(RED, 0)>>,
               <<RowStrip(RED, 0), RowStrip(GREEN, 0)>>>>
      [] move = U_PRIME ->
             <<<<RowStrip(GREEN, 0), RowStrip(RED, 0)>>,
               <<RowStrip(RED, 0), RowStrip(BLUE, 0)>>,
               <<RowStrip(BLUE, 0), RowStrip(ORANGE, 0)>>,
               <<RowStrip(ORANGE, 0), RowStrip(GREEN, 0)>>>>
      [] move = R ->
             <<<<ColStrip(WHITE, 2), ColStrip(GREEN, 2)>>,
               <<ColStrip(GREEN, 2), ColStrip(YELLOW, 2)>>,
               <<ColStrip(YELLOW, 2), RevColStrip(BLUE, 0)>>,
               <<RevColStrip(BLUE, 0), ColStrip(WHITE, 2)>>>>
      [] move = R_PRIME ->
             <<<<ColStrip(WHITE, 2), RevColStrip(BLUE, 0)>>,
               <<RevColStrip(BLUE, 0), ColStrip(YELLOW, 2)>>,
               <<ColStrip(YELLOW, 2), ColStrip(GREEN, 2)>>,
               <<ColStrip(GREEN, 2), ColStrip(WHITE, 2)>>>>

\* the facelet whose value the facelet c holds after the move
SourceCell(move, c) ==
    IF c[1] = TurnedFace(move)
    THEN IF move \in ClockwiseMoves
         THEN <<c[1], 2 - c[3], c[2]>>
         ELSE <<c[1], c[3], 2 - c[2]>>
    ELSE LET hits == {a \in 1 .. 4 : \E i \in Idx : StripAssignments(move)[a][1][i] = c}
         IN  IF hits = {}
             THEN c
             ELSE LET a == CHOOSE x \in hits : TRUE
                      i == CHOOSE x \in Idx : StripAssignments(move)[a][1][x] = c
                  IN  StripAssignments(move)[a][2][i]

\* the move made at once: every facelet takes the value its source held in s
Simultaneous(s, move) ==
    [f \in 0 .. 5 |-> [i \in Idx |-> [j \in Idx |-> ReadCell(s, SourceCell(move, <<f, i, j>>))]]]

\* C24: the state an implemented move leaves, written in place step by step, is the
\* simultaneous permutation of the state before it: every facelet holds the value its
\* source facelet held before the move began.
C24_MoveIsSimultaneousPermutation ==
    (lastCall.op = "applyMove" /\ lastCall.arg \in ImplementedMoves /\ pc = "idle") =>
        /\ cube = Simultaneous(lastCall.before, lastCall.arg)
        /\ \A move \in ImplementedMoves : applyMove(cube, move) = Simultaneous(cube, move)

\* C24 witness: R was applied to a scrambled cube on which reading Blue's new column
\* from the overwritten White column would have given another state
C24_Witness ==
    /\ lastCall.op = "applyMove"
    /\ lastCall.arg = R
    /\ pc = "idle"
    /\ applied = MaxMoves
    /\ cube = Simultaneous(lastCall.before, R)
    /\ cube # moveRNoTemp(lastCall.before)
    /\ cube # lastCall.before

\* the 54 facelets
Facelets == (0 .. 5) \X Idx \X Idx

\* C25: in every state reached from the solved cube by applyMove and scramble calls the
\* cube has six faces of three rows of three facelets, each holding a colour, and each
\* of the six colours is on exactly 9 facelets.
C25_NineFaceletsOfEachColour ==
    /\ DOMAIN cube = 0 .. 5
    /\ \A f \in 0 .. 5 :
           /\ DOMAIN cube[f] = Idx
           /\ \A i \in Idx : DOMAIN cube[f][i] = Idx /\ \A j \in Idx : cube[f][i][j] \in FaceColor
    /\ \A colour \in FaceColor :
           Cardinality({c \in Facelets : ReadCell(cube, c) = colour}) = 9

\* C25 witness: a scramble of two moves or more on a cube that was already turned left
\* a cube whose White face shows more than one colour
C25_Witness ==
    /\ lastCall.op = "scramble"
    /\ Len(lastCall.returned) >= 2
    /\ ~isSolved(lastCall.before)
    /\ ~isSolved(cube)
    /\ applied = MaxMoves
    /\ \E i, j \in Idx : cube[WHITE][i][j] # WHITE
    /\ \E i, j \in Idx : cube[RED][i][j] # RED

\* a strategy is running
Running == pc \in {"bfs", "dfs", "iddfs", "ida"}

\* the iterations of the while loop of solveKorfIDA begun so far, the running one
\* included: one more than the iterations that added NodesPerIteration to the counter
IterationsStarted == nodesExplored \div NodesPerIteration + 1

\* the iterations the loop guard lets begin: 200 for the maxNodes of the source
IterationCap == (2 * maxNodes + NodesPerIteration - 1) \div NodesPerIteration

\* the bounds a running strategy keeps: solveBFS, solveDFS and solveIDDFS have visited
\* at most maxNodes nodes; solveKorfIDA has begun at most IterationCap iterations, its
\* counter a multiple of NodesPerIteration, and in the running iteration every node
\* that is being expanded lies at depth g <= threshold, the path being as long as the
\* pending invocation is deep
BoundedSearch ==
    /\ pc \in {"bfs", "dfs", "iddfs"} => visits <= maxNodes
    /\ pc = "ida" =>
           /\ IterationsStarted <= IterationCap
           /\ nodesExplored % NodesPerIteration = 0
           /\ maxNodes = InitialMaxNodes => IterationCap = 200
           /\ \A i \in 1 .. Len(stack) : stack[i].g = i - 1 /\ stack[i].g <= threshold
           /\ call.g = Len(stack)
           /\ Len(path) = call.g

\* C26: every strategy terminates on every start state reachable from the solved cube.
\* A running strategy returns; until then solveBFS, solveDFS and solveIDDFS have
\* visited at most maxNodes nodes and solveKorfIDA has begun at most IterationCap
\* threshold iterations (200 for maxNodes = 100000), each a search that expands no node
\* deeper than the threshold.
C26_EveryStrategyTerminates ==
    /\ []BoundedSearch
    /\ Running ~> (pc = "done")

\* C26 witness: solveKorfIDA returned without a solution for a cube that is not solved
\* because its loop counter reached 2 x maxNodes, after visiting more than maxNodes nodes
C26_Witness ==
    /\ Done("KORF_IDA")
    /\ ~isSolved(cube)
    /\ result.moves = <<>>
    /\ maxNodes >= 1
    /\ result.nodesExplored >= 2 * maxNodes
    /\ result.nodesExplored = IterationCap * NodesPerIteration
    /\ visits > maxNodes

====
